---- MODULE Spec2Model ----
(***************************************************************************)
(* A model of the `holiday` crate: annually repeating calendar patterns    *)
(* (DayOfMonth, NthWeekdayOfMonth, HolidayDate), their successor and        *)
(* predecessor search (BeforeAfterDate), the pattern/date equality, and     *)
(* the windowed double-ended iterator HolidayIter.                          *)
(*                                                                          *)
(* Dates are records [year, month, day] of the proleptic Gregorian          *)
(* calendar.  chrono's representable range (MIN_DATE .. MAX_DATE, the years *)
(* -262143 .. 262142) is shortened by whole 400-year cycles of the          *)
(* calendar to the years MinYear .. MaxYear: MinYear is -262143 and MaxYear *)
(* is 262142 modulo 400, so the weekdays and the leap years at both ends of *)
(* the range are chrono's.  Every chrono operation that leaves the range,   *)
(* or that builds a date that does not exist, returns None and the `expect` *)
(* on it panics.  A panic is the value Panic and it propagates through      *)
(* every operation that receives it; an operation that returns a bool and   *)
(* can panic returns "true", "false" or "panic".                            *)
(***************************************************************************)
EXTENDS Integers, Sequences, FiniteSets, TLC

\* Bounds of the model: the representable years.
MinYear == 1857
MaxYear == 2142
\* The reference dates of the search functions are the two ends of the range
\* and the days of the years RefYearLow .. RefYearHigh whose day of the month
\* is at most RefDayLow or at least RefDayHigh.
RefYearLow == 2019
RefYearHigh == 2025
RefDayLow == 2
RefDayHigh == 24
\* Forward and backward steps of an iterator are taken while its cursor is in
\* the first StepYears + 1 years of the range or in the years
\* RefYearLow - StepYears .. RefYearHigh.
StepYears == 1
\* A search loop is run in nested chunks: Chunk ^ (ChunkLevels + 1) turns,
\* more than the longest search from these dates takes.
Chunk == 8
ChunkLevels == 3

-----------------------------------------------------------------------------
(* chrono::Weekday, as num_days_from_sunday()                               *)
Sun == 0
Mon == 1
Tue == 2
Wed == 3
Thu == 4
Fri == 5
Sat == 6

(* NthWeekday, lib.rs: First = 1 .. Last = 6                                *)
First  == 1
Second == 2
Third  == 3
Fourth == 4
Fifth  == 5
Last   == 6

-----------------------------------------------------------------------------
(* Calendar primitives (chrono::NaiveDate)                                  *)

\* The outcome of a panicking `expect`, of succ()/pred() at the end of the
\* range, or of from_ymd() on an invalid date.
Panic == [year |-> 0, month |-> 0, day |-> 0]

\* Option::None, where a date was asked for (a step that yields nothing, an
\* operation without a date argument)
None == [year |-> 0, month |-> 0, day |-> 1]

MIN_DATE == [year |-> MinYear, month |-> 1, day |-> 1]
MAX_DATE == [year |-> MaxYear, month |-> 12, day |-> 31]

IsLeapYear(y) == (y % 4 = 0 /\ y % 100 # 0) \/ y % 400 = 0

DaysInMonth(y, m) ==
    IF m = 2 THEN (IF IsLeapYear(y) THEN 29 ELSE 28)
    ELSE IF m \in {4, 6, 9, 11} THEN 30 ELSE 31

\* NaiveDate::from_ymd_opt(y, m, d).is_some()
ValidYmd(y, m, d) ==
    /\ y \in MinYear..MaxYear
    /\ m \in 1..12
    /\ d >= 1
    /\ d <= DaysInMonth(y, m)

\* NaiveDate::from_ymd: panics on an invalid or out-of-range date
from_ymd(y, m, d) ==
    IF ValidYmd(y, m, d) THEN [year |-> y, month |-> m, day |-> d] ELSE Panic

\* The order of NaiveDate (<, <=), through a key that orders dates
DateKey(d) == d.year * 10000 + d.month * 100 + d.day

DateLt(a, b) == DateKey(a) < DateKey(b)

DateLe(a, b) == DateKey(a) <= DateKey(b)

\* NaiveDate::succ: the next day; panics at MAX_DATE
succ(d) ==
    IF d = Panic \/ d = MAX_DATE THEN Panic
    ELSE IF d.day < DaysInMonth(d.year, d.month)
         THEN [d EXCEPT !.day = d.day + 1]
    ELSE IF d.month < 12
         THEN [year |-> d.year, month |-> d.month + 1, day |-> 1]
    ELSE [year |-> d.year + 1, month |-> 1, day |-> 1]

\* NaiveDate::pred: the previous day; panics at MIN_DATE
pred(d) ==
    IF d = Panic \/ d = MIN_DATE THEN Panic
    ELSE IF d.day > 1
         THEN [d EXCEPT !.day = d.day - 1]
    ELSE IF d.month > 1
         THEN [year |-> d.year, month |-> d.month - 1,
               day |-> DaysInMonth(d.year, d.month - 1)]
    ELSE [year |-> d.year - 1, month |-> 12, day |-> 31]

\* Datelike::with_day(..).expect(..)
with_day(d, day) ==
    IF d = Panic THEN Panic ELSE from_ymd(d.year, d.month, day)

\* Datelike::with_month(..).expect(..)
with_month(d, month) ==
    IF d = Panic THEN Panic ELSE from_ymd(d.year, month, d.day)

\* Datelike::with_year(..).expect(..)
with_year(d, year) ==
    IF d = Panic THEN Panic ELSE from_ymd(year, d.month, d.day)

\* Datelike::weekday, as num_days_from_sunday (Sunday = 0 .. Saturday = 6)
MonthShift(m) == <<0, 3, 2, 5, 0, 3, 5, 1, 4, 6, 2, 4>>[m]

weekday(d) ==
    LET y == IF d.month < 3 THEN d.year - 1 ELSE d.year
    IN  (y + (y \div 4) - (y \div 100) + (y \div 400)
           + MonthShift(d.month) + d.day) % 7

-----------------------------------------------------------------------------
(* before_after.rs: LastDayOfMonth, FirstDayOfMonth, IsLastWeekday          *)

last_day_of_month(d) ==
    IF d = Panic THEN Panic
    ELSE IF d.month = 12
         THEN pred(from_ymd(d.year + 1, 1, 1))
         ELSE pred(from_ymd(d.year, d.month + 1, 1))

first_day_of_month(d) ==
    IF d = Panic THEN Panic ELSE from_ymd(d.year, d.month, 1)

\* The loop of is_last_weekday: the number of days from `date` up to and
\* including limit = self.last_day_of_month().succ() that fall on the weekday
\* wd = self.weekday(); -1 when the loop panics.
RECURSIVE is_last_weekday_loop(_, _, _, _)
is_last_weekday_loop(wd, limit, date, count) ==
    IF date = Panic \/ limit = Panic THEN -1
    ELSE IF DateLe(date, limit)
         THEN is_last_weekday_loop(wd, limit, succ(date),
                  IF weekday(date) = wd THEN count + 1 ELSE count)
    ELSE count

is_last_weekday_count(self) ==
    is_last_weekday_loop(weekday(self), succ(last_day_of_month(self)),
                         succ(from_ymd(self.year, self.month, self.day)), 0)

\* `count == 0`, or the panic of the loop
count_is_zero(count) ==
    IF count = -1 THEN "panic" ELSE IF count = 0 THEN "true" ELSE "false"

is_last_weekday(self) == count_is_zero(is_last_weekday_count(self))

-----------------------------------------------------------------------------
(* lib.rs: the pattern types                                                *)

\* From<u32> for NthWeekday: 0 panics, 6 and more are Last
NthWeekday_from(u) == IF u = 0 THEN Panic ELSE IF u >= 6 THEN Last ELSE u

\* From<u32> for Month: panics outside 1..12
Month_from(u) == IF u \in 1..12 THEN u ELSE Panic

\* DayOfMonth::new, month.into() included
DayOfMonth_new(day, month) ==
    IF month \notin 1..12 THEN Panic
    ELSE [kind |-> "FixedDate", month |-> Month_from(month), day |-> day]

\* NthWeekdayOfMonth::new, nth.into() and month.into() included
NthWeekdayOfMonth_new(nth, wd, month) ==
    IF nth = 0 \/ month \notin 1..12 THEN Panic
    ELSE [kind |-> "NthDate", nth |-> NthWeekday_from(nth), weekday |-> wd,
          month |-> Month_from(month)]

\* The counting loop of From<NaiveDate> for NthWeekdayOfMonth, with
\* wd = date.weekday()
RECURSIVE nth_from_loop(_, _, _, _)
nth_from_loop(date, wd, loop_date, nth) ==
    LET n == IF weekday(loop_date) = wd THEN nth + 1 ELSE nth
    IN  IF ~DateLt(loop_date, date) THEN n
        ELSE nth_from_loop(date, wd, succ(loop_date), n)

\* The field nth of NthWeekdayOfMonth::from(date)
nth_from(date) ==
    NthWeekday_from(nth_from_loop(date, weekday(date), with_day(date, 1), 0))

NthWeekdayOfMonth_from(date) ==
    [kind |-> "NthDate", nth |-> nth_from(date), weekday |-> weekday(date),
     month |-> Month_from(date.month)]

-----------------------------------------------------------------------------
(* eq.rs: a pattern against a date                                          *)

DayOfMonth_eq_date(self, date) ==
    self.month = date.month /\ self.day = date.day

\* PartialEq<NaiveDate> for NthWeekdayOfMonth: "true", "false", or "panic"
\* when is_last_weekday is reached and panics.  The derived equality with
\* NthWeekdayOfMonth::from(date) is taken field by field.
NthWeekdayOfMonth_eq_date(self, date) ==
    IF self.nth = Last /\ weekday(date) = self.weekday
    THEN is_last_weekday(date)
    ELSE IF /\ self.month = date.month
            /\ self.weekday = weekday(date)
            /\ self.nth = nth_from(date)
         THEN "true" ELSE "false"

-----------------------------------------------------------------------------
(* before_after.rs: BeforeAfterDate                                         *)

\* The state of a search loop: the scan cursor check_date while the loop
\* runs, and the value the loop breaks with (or Panic) once it is done.
Running(check_date) == [done |-> FALSE, date |-> check_date]

Done(result) == [done |-> TRUE, date |-> result]

\* One turn of the loop of DayOfMonth::after
DayOfMonth_after_turn(self, check_date) ==
    IF check_date = Panic THEN Done(Panic)
    ELSE IF DayOfMonth_eq_date(self, check_date) THEN Done(check_date)
    ELSE Running(succ(check_date))

\* One turn of the loop of DayOfMonth::before
DayOfMonth_before_turn(self, check_date) ==
    IF check_date = Panic THEN Done(Panic)
    ELSE IF DayOfMonth_eq_date(self, check_date) THEN Done(check_date)
    ELSE Running(pred(check_date))

\* A slip in the else branch of NthWeekdayOfMonth::after: the jump to the
\* pattern's month goes to the following year in both branches.
NthWeekdayOfMonth_after_step_next_year(self, check_date) ==
    IF check_date.month # self.month
    THEN with_year(with_month(with_day(check_date, 1), self.month),
                   check_date.year + 1)
    ELSE succ(check_date)

\* The else branch of the loop of NthWeekdayOfMonth::after
NthWeekdayOfMonth_after_step(self, check_date) ==
    IF check_date.month < self.month
    THEN with_month(with_day(check_date, 1), self.month)
    ELSE IF check_date.month > self.month
    THEN with_year(with_month(with_day(check_date, 1), self.month),
                   check_date.year + 1)
    ELSE succ(check_date)

\* One turn of the loop of NthWeekdayOfMonth::after, eq being the outcome
\* of `self == &check_date`
NthWeekdayOfMonth_after_branch(self, check_date, eq) ==
    IF eq = "panic" THEN Done(Panic)
    ELSE IF eq = "true" THEN Done(check_date)
    ELSE Running(NthWeekdayOfMonth_after_step(self, check_date))

NthWeekdayOfMonth_after_turn(self, check_date) ==
    IF check_date = Panic THEN Done(Panic)
    ELSE NthWeekdayOfMonth_after_branch(self, check_date,
             NthWeekdayOfMonth_eq_date(self, check_date))

\* The else branch of the loop of NthWeekdayOfMonth::before
NthWeekdayOfMonth_before_step(self, check_date) ==
    IF check_date.month > self.month
    THEN last_day_of_month(with_month(check_date, self.month))
    ELSE IF check_date.month < self.month
    THEN last_day_of_month(
             with_year(with_month(with_day(check_date, 1), self.month),
                       check_date.year - 1))
    ELSE pred(check_date)

\* One turn of the loop of NthWeekdayOfMonth::before, eq being the outcome
\* of `self == &check_date`
NthWeekdayOfMonth_before_branch(self, check_date, eq) ==
    IF eq = "panic" THEN Done(Panic)
    ELSE IF eq = "true" THEN Done(check_date)
    ELSE Running(NthWeekdayOfMonth_before_step(self, check_date))

NthWeekdayOfMonth_before_turn(self, check_date) ==
    IF check_date = Panic THEN Done(Panic)
    ELSE NthWeekdayOfMonth_before_branch(self, check_date,
             NthWeekdayOfMonth_eq_date(self, check_date))

LoopTurn(loop, self, check_date) ==
    CASE loop = "DayOfMonth::after"         -> DayOfMonth_after_turn(self, check_date)
      [] loop = "DayOfMonth::before"        -> DayOfMonth_before_turn(self, check_date)
      [] loop = "NthWeekdayOfMonth::after"  -> NthWeekdayOfMonth_after_turn(self, check_date)
      [] loop = "NthWeekdayOfMonth::before" -> NthWeekdayOfMonth_before_turn(self, check_date)

\* `loop { .. }`: the turns are taken in nested runs of Chunk turns each, so
\* that a scan over the whole range of dates stays a shallow recursion.
RECURSIVE LoopRun(_, _, _, _, _)
LoopRun(loop, self, st, level, n) ==
    IF st.done \/ n = 0 THEN st
    ELSE LoopRun(loop, self,
                 IF level = 0 THEN LoopTurn(loop, self, st.date)
                 ELSE LoopRun(loop, self, st, level - 1, Chunk),
                 level, n - 1)

Loop(loop, self, check_date) ==
    LoopRun(loop, self, Running(check_date), ChunkLevels, Chunk).date

DayOfMonth_after(self, date) == Loop("DayOfMonth::after", self, date)

DayOfMonth_before(self, date) == Loop("DayOfMonth::before", self, pred(date))

NthWeekdayOfMonth_after(self, date) ==
    Loop("NthWeekdayOfMonth::after", self, date)

NthWeekdayOfMonth_before(self, date) ==
    Loop("NthWeekdayOfMonth::before", self, pred(date))

\* BeforeAfterDate for HolidayDate (and for Holiday, which delegates)
HolidayDate_after(self, date) ==
    IF self.kind = "FixedDate" THEN DayOfMonth_after(self, date)
    ELSE NthWeekdayOfMonth_after(self, date)

HolidayDate_before(self, date) ==
    IF self.kind = "FixedDate" THEN DayOfMonth_before(self, date)
    ELSE NthWeekdayOfMonth_before(self, date)

first_date(self) == HolidayDate_after(self, MIN_DATE)

last_date(self) == HolidayDate_before(self, MAX_DATE)

\* Holiday::in_year
in_year(self, year) == HolidayDate_after(self, from_ymd(year, 1, 1))

-----------------------------------------------------------------------------
(* The patterns under check: constants of holidays/united_states.rs and     *)
(* holidays/global.rs, the patterns of the tests of iter.rs, and the        *)
(* patterns whose month ends the year or is the shortest.                   *)

THANKSGIVING     == NthWeekdayOfMonth_new(Fourth, Thu, 11)
MEMORIAL_DAY     == NthWeekdayOfMonth_new(Last, Mon, 5)
PRESIDENTS_DAY   == NthWeekdayOfMonth_new(Third, Mon, 2)
FIRST_WED_JAN    == NthWeekdayOfMonth_new(First, Wed, 1)
FIFTH_WED_DEC    == NthWeekdayOfMonth_new(Fifth, Wed, 12)
FIFTH_SAT_FEB    == NthWeekdayOfMonth_new(Fifth, Sat, 2)
HALLOWEEN        == DayOfMonth_new(31, 10)
NEW_YEARS_DAY    == DayOfMonth_new(1, 1)
NEW_YEARS_EVE    == DayOfMonth_new(31, 12)
LEAP_DAY         == DayOfMonth_new(29, 2)

\* The patterns given to the search functions
Patterns ==
    { THANKSGIVING, MEMORIAL_DAY, PRESIDENTS_DAY, FIRST_WED_JAN, FIFTH_WED_DEC,
      FIFTH_SAT_FEB, HALLOWEEN, NEW_YEARS_DAY, NEW_YEARS_EVE, LEAP_DAY }

\* The patterns an iterator is made of
IterPatterns ==
    { THANKSGIVING, MEMORIAL_DAY, PRESIDENTS_DAY, FIRST_WED_JAN, FIFTH_WED_DEC,
      HALLOWEEN, NEW_YEARS_DAY }

Years == MinYear..MaxYear

RefYears == RefYearLow..RefYearHigh

\* Every date of the years `years`
DatesIn(years) ==
    { [year |-> y, month |-> m, day |-> d] :
          y \in years, m \in 1..12, d \in 1..31 } \ 
    { x \in [year : years, month : 1..12, day : 29..31] :
          x.day > DaysInMonth(x.year, x.month) }

\* Every date of the representable range
Dates == DatesIn(Years)

RefDates ==
    { d \in DatesIn(RefYears) : d.day <= RefDayLow \/ d.day >= RefDayHigh }
        \cup {MIN_DATE, MAX_DATE}

-----------------------------------------------------------------------------
(* State                                                                    *)

VARIABLES
    holiday,    \* the pattern: HolidayIter.holiday, and `self` of a search
    first,      \* HolidayIter.first
    last,       \* HolidayIter.last
    current,    \* HolidayIter.current
    panicked,   \* the program has panicked
    call        \* the last operation: its name, its date argument, its result

vars == <<holiday, first, last, current, panicked, call>>

Call(fn, date, ret) == [fn |-> fn, date |-> date, ret |-> ret]

-----------------------------------------------------------------------------
(* The search functions, applied to an input                                *)

\* An input: a pattern and a reference date; no iterator is made
InitFn ==
    /\ holiday \in Patterns
    /\ first = None
    /\ last = None
    /\ current = None
    /\ panicked = FALSE
    /\ \E d \in RefDates : call = Call("input", d, None)

\* The result of a search, or the panic it ends with
Returned(fn, ret) ==
    /\ call' = Call(fn, call.date, ret)
    /\ panicked' = (ret = Panic)
    /\ UNCHANGED <<holiday, first, last, current>>

After ==
    /\ call.fn = "input"
    /\ Returned("after", HolidayDate_after(holiday, call.date))

Before ==
    /\ call.fn = "input"
    /\ Returned("before", HolidayDate_before(holiday, call.date))

\* in_year(y), for the year y whose first day is the input
InYear ==
    /\ call.fn = "input"
    /\ call.date = from_ymd(call.date.year, 1, 1)
    /\ Returned("in_year", in_year(holiday, call.date.year))

\* first_date() takes no date: it is applied once for a pattern, on the input
\* that carries MIN_DATE
FirstDate ==
    /\ call.fn = "input"
    /\ call.date = MIN_DATE
    /\ Returned("first_date", first_date(holiday))

\* last_date(), applied on the input that carries MAX_DATE
LastDate ==
    /\ call.fn = "input"
    /\ call.date = MAX_DATE
    /\ Returned("last_date", last_date(holiday))

NextFn == After \/ Before \/ InYear \/ FirstDate \/ LastDate

SpecFn == InitFn /\ [][NextFn]_vars

-----------------------------------------------------------------------------
(* iter.rs: HolidayIter                                                     *)

\* The dates given to at, starting_at and ending_at
IterDates ==
    { [year |-> 2020, month |-> 5,  day |-> 1],
      [year |-> 2020, month |-> 11, day |-> 1],
      [year |-> 2021, month |-> 6,  day |-> 1],
      [year |-> 2021, month |-> 11, day |-> 25] }

\* shift_from: the bounds after `date` was taken into the window
shift_from_first(f, date) == IF DateLt(date, f) THEN date ELSE f

\* A shift_from that never moves last
shift_from_last_kept(l, date) == l

shift_from_last(l, date) == IF DateLt(l, date) THEN date ELSE l

\* An operation that panics: the program stops with the iterator as it was
Panics(fn, date) ==
    /\ panicked' = TRUE
    /\ call' = Call(fn, date, Panic)
    /\ UNCHANGED <<holiday, first, last, current>>

\* IntoIterator for &Holiday: first_date(), last_date(), first_date()
Init ==
    /\ holiday \in IterPatterns
    /\ IF first_date(holiday) = Panic \/ last_date(holiday) = Panic
       THEN /\ first = None
            /\ last = None
            /\ current = None
            /\ panicked = TRUE
            /\ call = Call("into_iter", None, Panic)
       ELSE /\ first = first_date(holiday)
            /\ last = last_date(holiday)
            /\ current = first_date(holiday)
            /\ panicked = FALSE
            /\ call = Call("into_iter", None, None)

\* HolidayIter::at, c being current_date.pred()
SetCurrent(current_date, c) ==
    IF c = Panic
    THEN Panics("at", current_date)
    ELSE /\ current' = c
         /\ first' = shift_from_first(first, current_date)
         /\ last' = shift_from_last(last, current_date)
         /\ call' = Call("at", current_date, None)
         /\ UNCHANGED <<holiday, panicked>>

At(current_date) ==
    /\ ~panicked
    /\ SetCurrent(current_date, pred(current_date))

\* HolidayIter::starting_at, f being self.holiday.after(&start_date)
SetFirst(start_date, f) ==
    IF f = Panic
    THEN Panics("starting_at", start_date)
    ELSE /\ first' = shift_from_first(f, start_date)
         /\ last' = shift_from_last(last, start_date)
         /\ call' = Call("starting_at", start_date, None)
         /\ UNCHANGED <<holiday, current, panicked>>

StartingAt(start_date) ==
    /\ ~panicked
    /\ SetFirst(start_date, HolidayDate_after(holiday, start_date))

\* HolidayIter::ending_at, l being self.holiday.before(&end_date)
SetLast(end_date, l) ==
    IF l = Panic
    THEN Panics("ending_at", end_date)
    ELSE /\ first' = shift_from_first(first, end_date)
         /\ last' = shift_from_last(l, end_date)
         /\ call' = Call("ending_at", end_date, None)
         /\ UNCHANGED <<holiday, current, panicked>>

EndingAt(end_date) ==
    /\ ~panicked
    /\ SetLast(end_date, HolidayDate_before(holiday, end_date))

\* Iterator::next, next being self.holiday.after(&self.current.succ())
Forward(next) ==
    IF next = Panic
    THEN Panics("next", None)
    ELSE IF DateLe(next, last)
    THEN /\ current' = next
         /\ call' = Call("next", None, next)
         /\ UNCHANGED <<holiday, first, last, panicked>>
    ELSE /\ call' = Call("next", None, None)
         /\ UNCHANGED <<holiday, first, last, current, panicked>>

\* The cursors from which the model takes a step
InStepRange(c) ==
    \/ c.year <= MinYear + StepYears
    \/ c.year \in (RefYearLow - StepYears)..RefYearHigh

IterNext ==
    /\ ~panicked
    /\ InStepRange(current)
    /\ Forward(HolidayDate_after(holiday, succ(current)))

\* DoubleEndedIterator::next_back, prev being self.holiday.before(&self.current)
Backward(prev) ==
    IF prev = Panic
    THEN Panics("next_back", None)
    ELSE IF DateLe(first, current)
    THEN /\ current' = prev
         /\ call' = Call("next_back", None, prev)
         /\ UNCHANGED <<holiday, first, last, panicked>>
    ELSE /\ call' = Call("next_back", None, None)
         /\ UNCHANGED <<holiday, first, last, current, panicked>>

IterNextBack ==
    /\ ~panicked
    /\ InStepRange(current)
    /\ Backward(HolidayDate_before(holiday, current))

\* HolidayIter::shift_from, called on its own
ShiftFrom(date) ==
    /\ ~panicked
    /\ first' = shift_from_first(first, date)
    /\ last' = shift_from_last(last, date)
    /\ call' = Call("shift_from", date, None)
    /\ UNCHANGED <<holiday, current, panicked>>

Next ==
    \/ \E d \in IterDates : At(d)
    \/ \E d \in IterDates : ShiftFrom(d)
    \/ \E d \in IterDates : StartingAt(d)
    \/ \E d \in IterDates : EndingAt(d)
    \/ IterNext
    \/ IterNextBack

Spec == Init /\ [][Next]_vars

-----------------------------------------------------------------------------
(* What the specification calls an occurrence of a pattern                  *)

\* The day of the month of the first `wd` of month m of year y
FirstWeekdayDay(y, m, wd) ==
    1 + ((wd - weekday([year |-> y, month |-> m, day |-> 1]) + 7) % 7)

\* The day of the month on which pattern p falls in year y; 0 when it does
\* not fall in that year (a fifth weekday or a day the month does not have)
OccurrenceDay(p, y) ==
    LET len == DaysInMonth(y, p.month)
    IN  IF p.kind = "FixedDate"
        THEN (IF p.day <= len THEN p.day ELSE 0)
        ELSE LET f == FirstWeekdayDay(y, p.month, p.weekday)
             IN  IF p.nth = Last THEN f + 7 * ((len - f) \div 7)
                 ELSE IF f + 7 * (p.nth - 1) <= len THEN f + 7 * (p.nth - 1)
                 ELSE 0

OccurrenceIn(p, y) ==
    IF OccurrenceDay(p, y) = 0 THEN None
    ELSE [year |-> y, month |-> p.month, day |-> OccurrenceDay(p, y)]

IsOccurrence(p, d) == d = OccurrenceIn(p, d.year)

\* The earliest occurrence of p at or after d in the years y .. MaxYear
RECURSIVE EarliestOccurrenceFrom(_, _, _)
EarliestOccurrenceFrom(p, d, y) ==
    IF y > MaxYear THEN None
    ELSE IF OccurrenceDay(p, y) # 0 /\ DateLe(d, OccurrenceIn(p, y))
    THEN OccurrenceIn(p, y)
    ELSE EarliestOccurrenceFrom(p, d, y + 1)

\* The earliest occurrence of p at or after d inside the range, or None
EarliestOccurrence(p, d) == EarliestOccurrenceFrom(p, d, d.year)

\* The latest occurrence of p strictly before d in the years MinYear .. y
RECURSIVE LatestOccurrenceUpTo(_, _, _)
LatestOccurrenceUpTo(p, d, y) ==
    IF y < MinYear THEN None
    ELSE IF OccurrenceDay(p, y) # 0 /\ DateLt(OccurrenceIn(p, y), d)
    THEN OccurrenceIn(p, y)
    ELSE LatestOccurrenceUpTo(p, d, y - 1)

\* The latest occurrence of p strictly before d inside the range, or None
LatestOccurrenceBefore(p, d) == LatestOccurrenceUpTo(p, d, d.year)

-----------------------------------------------------------------------------
(* The search functions: claims                                             *)

\* C1: after(p, d) returns the earliest occurrence r of p with r >= d (d
\* itself when d is an occurrence, no occurrence in [d, r)), whenever such an
\* occurrence lies in the representable range.
C1_AfterIsEarliestOccurrence ==
    (call.fn = "after" /\ EarliestOccurrence(holiday, call.date) # None)
        => call.ret = EarliestOccurrence(holiday, call.date)

\* C2: before(p, d) returns the latest occurrence r of p with r < d (never d
\* itself, no occurrence in (r, d)), whenever such an occurrence lies in the
\* representable range.
C2_BeforeIsLatestOccurrence ==
    (call.fn = "before" /\ LatestOccurrenceBefore(holiday, call.date) # None)
        => call.ret = LatestOccurrenceBefore(holiday, call.date)

\* C3: after(p, d) and before(p, d) are total: when the answer lies inside
\* the representable range the call returns a date and does not panic.
C3_SearchIsTotal ==
    /\ (call.fn = "after" /\ EarliestOccurrence(holiday, call.date) # None)
           => call.ret # Panic
    /\ (call.fn = "before" /\ LatestOccurrenceBefore(holiday, call.date) # None)
           => call.ret # Panic

\* C4: for a pattern with ordinal Last and every year y, the final occurrence
\* of the weekday in the pattern's month of year y equals the pattern, and
\* in_year(y) returns exactly that date.
C4_LastInYear ==
    (call.fn = "in_year" /\ holiday.kind = "NthDate" /\ holiday.nth = Last)
        => /\ call.ret = OccurrenceIn(holiday, call.date.year)
           /\ NthWeekdayOfMonth_eq_date(holiday,
                                        OccurrenceIn(holiday, call.date.year))
                  = "true"

\* C5: every date returned by after or before for an NthWeekdayOfMonth
\* pattern falls in the pattern's month.
C5_ResultInPatternMonth ==
    (call.fn \in {"after", "before"} /\ holiday.kind = "NthDate"
         /\ call.ret # Panic)
        => call.ret.month = holiday.month

\* C6: for a pattern with ordinal Fifth, after(p, d) does not fail and
\* returns the earliest date at or after d that is the fifth occurrence of
\* the weekday in the pattern's month, over every year without one, whenever
\* such a date lies in the representable range.
C6_FifthCarriesForward ==
    (call.fn = "after" /\ holiday.kind = "NthDate" /\ holiday.nth = Fifth
         /\ EarliestOccurrence(holiday, call.date) # None)
        => /\ call.ret # Panic
           /\ call.ret = EarliestOccurrence(holiday, call.date)
           /\ NthWeekdayOfMonth_from(call.ret).nth = Fifth

\* C6 witness: a search for a fifth weekday that was carried over three
\* years in which the month has only four of them.
C6_Witness ==
    /\ call.fn = "after"
    /\ holiday.kind = "NthDate"
    /\ holiday.nth = Fifth
    /\ call.ret # Panic
    /\ call.ret.year = call.date.year + 4
    /\ \A y \in (call.date.year + 1)..(call.ret.year - 1) :
           OccurrenceIn(holiday, y) = None

-----------------------------------------------------------------------------
(* The iterator: claims                                                     *)

\* A step that yielded a date
Yielded(c) == c.ret # None /\ c.ret # Panic

\* C7: after at(d), the next forward step yields the occurrence of p at or
\* after d (d itself when d is an occurrence), and each further consecutive
\* forward step yields the next later occurrence of p, none skipped and none
\* repeated, for as long as that occurrence is <= last.
C7_AtThenForward ==
    [][ /\ ( /\ call.fn = "at" /\ ~panicked
             /\ call'.fn = "next" /\ call'.ret # Panic
             /\ EarliestOccurrence(holiday, call.date) # None
             /\ DateLe(EarliestOccurrence(holiday, call.date), last) )
           => call'.ret = EarliestOccurrence(holiday, call.date)
        /\ ( /\ call.fn = "next" /\ Yielded(call)
             /\ call'.fn = "next" /\ call'.ret # Panic
             /\ EarliestOccurrence(holiday, succ(call.ret)) # None
             /\ DateLe(EarliestOccurrence(holiday, succ(call.ret)), last) )
           => call'.ret = EarliestOccurrence(holiday, succ(call.ret))
      ]_vars

\* C8: whenever a forward step yields x, an immediately following backward
\* step yields the occurrence immediately preceding x, before(p, x), and
\* consecutive backward steps yield successively earlier consecutive
\* occurrences.
C8_ForwardThenBackward ==
    [][ /\ ( /\ call.fn = "next" /\ Yielded(call)
             /\ call'.fn = "next_back" /\ call'.ret # Panic )
           => call'.ret = HolidayDate_before(holiday, call.ret)
        /\ ( /\ call.fn = "next_back" /\ Yielded(call)
             /\ call'.fn = "next_back" /\ Yielded(call') )
           => call'.ret = LatestOccurrenceBefore(holiday, call.ret)
      ]_vars

\* C9: every date yielded by a forward or a backward step lies in the window
\* first <= d <= last in force at that step.
C9_YieldInWindow ==
    (call.fn \in {"next", "next_back"} /\ Yielded(call))
        => DateLe(first, call.ret) /\ DateLe(call.ret, last)

\* C10: immediately after ending_at(e) the bound last equals before(p, e),
\* and a forward step that follows yields neither e nor a later date.
C10_EndingAtExclusive ==
    [][ /\ (call'.fn = "ending_at" /\ ~panicked')
           => last' = HolidayDate_before(holiday, call'.date)
        /\ ( /\ call.fn = "ending_at" /\ ~panicked
             /\ call'.fn = "next" /\ Yielded(call') )
           => DateLt(call'.ret, call.date)
      ]_vars

\* The fields of an iterator on which only starting_at has been called since
\* it was created: starting_at leaves current alone and keeps last
FreshCursor ==
    /\ current = first_date(holiday)
    /\ last = last_date(holiday)

\* C11: immediately after starting_at(s) the bound first equals after(p, s),
\* and on a freshly created iterator the first forward step after
\* starting_at(s) yields that occurrence.
C11_StartingAtFirst ==
    [][ /\ (call'.fn = "starting_at" /\ ~panicked')
           => first' = HolidayDate_after(holiday, call'.date)
        /\ ( /\ call.fn = "starting_at" /\ ~panicked /\ FreshCursor
             /\ call'.fn = "next" /\ call'.ret # Panic )
           => call'.ret = HolidayDate_after(holiday, call.date)
      ]_vars

\* C12: a freshly created iterator has first = first_date() and
\* last = last_date(), and its first forward step yields first_date().
C12_FreshYieldsFirstDate ==
    [][ (call.fn = "into_iter" /\ ~panicked)
           => /\ first = first_date(holiday)
              /\ last = last_date(holiday)
              /\ (call'.fn = "next" /\ call'.ret # Panic)
                     => call'.ret = first_date(holiday)
      ]_vars

-----------------------------------------------------------------------------
(* first_date and last_date: claims                                         *)

\* The latest occurrence of p inside the range, MAX_DATE included, or None
LatestOccurrence(p) ==
    IF IsOccurrence(p, MAX_DATE) THEN MAX_DATE
    ELSE LatestOccurrenceBefore(p, MAX_DATE)

\* C14: first_date() returns the earliest occurrence of the pattern in the
\* representable range, and last_date() returns the latest occurrence in the
\* representable range, also when that occurrence is the maximum date itself.
C14_FirstAndLastDate ==
    /\ call.fn = "first_date"
           => call.ret = EarliestOccurrence(holiday, MIN_DATE)
    /\ call.fn = "last_date"
           => call.ret = LatestOccurrence(holiday)

-----------------------------------------------------------------------------
(* eq.rs: ordering of patterns and of named holidays                        *)

\* Ord for u32, and the derived Ord of Month and NthWeekday, which compares
\* the discriminants
Ord_cmp(a, b) == IF a < b THEN "Less" ELSE IF a = b THEN "Equal" ELSE "Greater"

\* A comparison of two DayOfMonth by the day first
DayOfMonth_cmp_day_first(self, other) ==
    IF self.day = other.day
    THEN Ord_cmp(self.month, other.month)
    ELSE Ord_cmp(self.day, other.day)

\* Ord for DayOfMonth
DayOfMonth_cmp(self, other) ==
    IF self.month = other.month
    THEN Ord_cmp(self.day, other.day)
    ELSE Ord_cmp(self.month, other.month)

\* Ord for NthWeekdayOfMonth
NthWeekdayOfMonth_cmp(self, other) ==
    IF self.month = other.month
    THEN IF self.nth = other.nth
         THEN Ord_cmp(self.weekday, other.weekday)
         ELSE Ord_cmp(self.nth, other.nth)
    ELSE Ord_cmp(self.month, other.month)

\* A comparison of patterns in which the same-month rule answers Less for an
\* NthDate against a FixedDate too
HolidayDate_cmp_less_both_ways(self, other) ==
    CASE self.kind = "FixedDate" /\ other.kind = "FixedDate" ->
             DayOfMonth_cmp(self, other)
      [] self.kind = "NthDate" /\ other.kind = "NthDate" ->
             NthWeekdayOfMonth_cmp(self, other)
      [] OTHER ->
             IF self.month = other.month THEN "Less"
             ELSE Ord_cmp(self.month, other.month)

\* Ord for HolidayDate
HolidayDate_cmp(self, other) ==
    CASE self.kind = "FixedDate" /\ other.kind = "FixedDate" ->
             DayOfMonth_cmp(self, other)
      [] self.kind = "NthDate" /\ other.kind = "NthDate" ->
             NthWeekdayOfMonth_cmp(self, other)
      [] self.kind = "FixedDate" /\ other.kind = "NthDate" ->
             IF self.month = other.month THEN "Less"
             ELSE Ord_cmp(self.month, other.month)
      [] self.kind = "NthDate" /\ other.kind = "FixedDate" ->
             IF self.month = other.month THEN "Greater"
             ELSE Ord_cmp(self.month, other.month)

\* The derived PartialEq of HolidayDate: the same variant with equal fields
HolidayDate_eq(self, other) == self = other

\* Ord for String: byte by byte, a proper prefix being Less
RECURSIVE String_cmp(_, _)
String_cmp(a, b) ==
    IF a = <<>> /\ b = <<>> THEN "Equal"
    ELSE IF a = <<>> THEN "Less"
    ELSE IF b = <<>> THEN "Greater"
    ELSE IF Head(a) # Head(b) THEN Ord_cmp(Head(a), Head(b))
    ELSE String_cmp(Tail(a), Tail(b))

\* A named holiday; the name is the byte string name.to_string() gives
Holiday_new(name, date) == [name |-> name, date |-> date]

\* PartialEq for Holiday
Holiday_eq(self, other) ==
    HolidayDate_eq(self.date, other.date)
        /\ String_cmp(self.name, other.name) = "Equal"

\* Ord for Holiday
Holiday_cmp(self, other) ==
    IF HolidayDate_eq(self.date, other.date)
    THEN String_cmp(self.name, other.name)
    ELSE HolidayDate_cmp(self.date, other.date)

\* vec.sort(): the stable insertion sort that slice::sort runs on a short
\* slice, each element moved left past the elements it is Less than
RECURSIVE sort_insert(_, _)
sort_insert(sorted, x) ==
    IF sorted = <<>> THEN <<x>>
    ELSE IF Holiday_cmp(x, sorted[Len(sorted)]) = "Less"
    THEN Append(sort_insert(SubSeq(sorted, 1, Len(sorted) - 1), x),
                sorted[Len(sorted)])
    ELSE Append(sorted, x)

RECURSIVE sort_from(_, _, _)
sort_from(sorted, vec, i) ==
    IF i > Len(vec) THEN sorted
    ELSE sort_from(sort_insert(sorted, vec[i]), vec, i + 1)

sort(vec) == sort_from(<<>>, vec, 1)

\* The patterns compared: the holidays of the test holiday_ord, and patterns
\* that share a month with them
CHRISTMAS     == DayOfMonth_new(25, 12)
FIRST_MON_JAN == NthWeekdayOfMonth_new(First, Mon, 1)
LAST_SUN_JAN  == NthWeekdayOfMonth_new(Last, Sun, 1)

OrdPatterns ==
    { NEW_YEARS_DAY, FIRST_WED_JAN, FIRST_MON_JAN, LAST_SUN_JAN, HALLOWEEN,
      THANKSGIVING, CHRISTMAS, NEW_YEARS_EVE, FIFTH_WED_DEC }

\* The names: "A", "AB" and "B"
Names == { <<65>>, <<65, 66>>, <<66>> }

Holidays == { Holiday_new(n, p) : n \in Names, p \in OrdPatterns }

\* A comparison or a sort: self is `holiday`; vec![self, other, third]
OrdCall(fn, other, third, ret) ==
    [fn |-> fn, other |-> other, third |-> third, ret |-> ret]

\* Three named holidays; no iterator is made
InitOrd ==
    /\ holiday \in Holidays
    /\ first = None
    /\ last = None
    /\ current = None
    /\ panicked = FALSE
    /\ \E b \in Holidays, c \in Holidays : call = OrdCall("input", b, c, None)

OrdReturned(fn, ret) ==
    /\ call' = OrdCall(fn, call.other, call.third, ret)
    /\ UNCHANGED <<holiday, first, last, current, panicked>>

\* self.cmp(&other)
HolidayCmp ==
    /\ call.fn = "input"
    /\ OrdReturned("cmp", Holiday_cmp(holiday, call.other))

\* self == other
HolidayEq ==
    /\ call.fn = "input"
    /\ OrdReturned("eq", Holiday_eq(holiday, call.other))

\* vec![self, other, third].sort()
HolidaySort ==
    /\ call.fn = "input"
    /\ OrdReturned("sort", sort(<<holiday, call.other, call.third>>))

NextOrd == HolidayCmp \/ HolidayEq \/ HolidaySort

SpecOrd == InitOrd /\ [][NextOrd]_vars

-----------------------------------------------------------------------------
(* Ordering: claims                                                         *)

\* The order the specification gives two patterns of the same month: a
\* FixedDate before an NthDate, days by day, weekdays by ordinal then weekday
SameMonthOrder(a, b) ==
    IF a.kind = "FixedDate" /\ b.kind = "NthDate" THEN "Less"
    ELSE IF a.kind = "NthDate" /\ b.kind = "FixedDate" THEN "Greater"
    ELSE IF a.kind = "FixedDate"
    THEN (IF a.day < b.day THEN "Less"
          ELSE IF a.day > b.day THEN "Greater" ELSE "Equal")
    ELSE IF a.nth < b.nth THEN "Less"
    ELSE IF a.nth > b.nth THEN "Greater"
    ELSE IF a.weekday < b.weekday THEN "Less"
    ELSE IF a.weekday > b.weekday THEN "Greater"
    ELSE "Equal"

\* The bytes of a before those of b, in dictionary order
NameBefore(a, b) ==
    \E i \in 0..Len(a) :
        /\ i <= Len(b)
        /\ SubSeq(a, 1, i) = SubSeq(b, 1, i)
        /\ IF i = Len(a) THEN i < Len(b)
           ELSE i < Len(b) /\ a[i + 1] < b[i + 1]

\* The items of a sequence, with their number of copies
Items(s) == [x \in {s[i] : i \in 1..Len(s)} |->
                Cardinality({i \in 1..Len(s) : s[i] = x})]

\* C13: the pattern with the smaller month compares Less; within a month a
\* FixedDate is Less than an NthDate, two DayOfMonth compare by day, two
\* NthWeekdayOfMonth by ordinal then weekday; named holidays compare by
\* pattern and by name only on equal patterns; a sorted collection is in
\* month-ascending order.
C13_MonthPrimaryOrder ==
    /\ call.fn = "cmp" =>
           LET a == holiday.date
               b == call.other.date
           IN  /\ a.month < b.month => call.ret = "Less"
               /\ a.month > b.month => call.ret = "Greater"
               /\ (a.month = b.month /\ a # b)
                      => call.ret = SameMonthOrder(a, b)
               /\ a = b =>
                      call.ret = (IF NameBefore(holiday.name, call.other.name)
                                  THEN "Less"
                                  ELSE IF holiday.name = call.other.name
                                  THEN "Equal" ELSE "Greater")
    /\ call.fn = "sort" =>
           /\ Items(call.ret) = Items(<<holiday, call.other, call.third>>)
           /\ \A i \in 1..Len(call.ret), j \in 1..Len(call.ret) :
                  i < j => call.ret[i].date.month <= call.ret[j].date.month

\* C13 witness: a FixedDate compared Less than an NthDate of the same month
\* that falls earlier in the month, and a sort that had to reorder.
C13_Witness ==
    \/ /\ call.fn = "cmp"
       /\ holiday.date = NEW_YEARS_EVE
       /\ call.other.date = FIFTH_WED_DEC
       /\ call.ret = "Less"
    \/ /\ call.fn = "sort"
       /\ holiday.date.month > call.other.date.month
       /\ call.other.date.month > call.third.date.month
       /\ call.ret = <<call.third, call.other, holiday>>

\* The reverse of an Ordering
Reverse(o) ==
    IF o = "Less" THEN "Greater" ELSE IF o = "Greater" THEN "Less" ELSE "Equal"

\* C16: the comparator of patterns, and that of named holidays, is a total
\* order consistent with structural equality: cmp(a, b) is the reverse of
\* cmp(b, a), it is Equal exactly when a and b are structurally equal, and
\* Less is transitive.
C16_TotalOrder ==
    call.fn \in {"cmp", "eq"} =>
        LET a == holiday
            b == call.other
            c == call.third
        IN  /\ call.fn = "cmp" => call.ret = Reverse(Holiday_cmp(b, a))
            /\ call.fn = "cmp" => ((call.ret = "Equal") <=> (a = b))
            /\ call.fn = "eq" => (call.ret <=> (a = b))
            /\ call.fn = "eq" =>
                   (call.ret <=> (Holiday_cmp(a, b) = "Equal"))
            /\ (Holiday_cmp(a, b) = "Less" /\ Holiday_cmp(b, c) = "Less")
                   => Holiday_cmp(a, c) = "Less"
            /\ HolidayDate_cmp(a.date, b.date)
                   = Reverse(HolidayDate_cmp(b.date, a.date))
            /\ (HolidayDate_cmp(a.date, b.date) = "Equal")
                   <=> (a.date = b.date)
            /\ ( /\ HolidayDate_cmp(a.date, b.date) = "Less"
                 /\ HolidayDate_cmp(b.date, c.date) = "Less" )
                   => HolidayDate_cmp(a.date, c.date) = "Less"

\* C16 witness: a chain a < b < c through the FixedDate/NthDate rule, a and b
\* in one month with b a weekday pattern, c a FixedDate again.
C16_Witness ==
    /\ call.fn = "cmp"
    /\ call.ret = "Less"
    /\ holiday.date.kind = "FixedDate"
    /\ call.other.date.kind = "NthDate"
    /\ holiday.date.month = call.other.date.month
    /\ call.third.date.kind = "FixedDate"
    /\ Holiday_cmp(call.other, call.third) = "Less"
    /\ Holiday_cmp(holiday, call.third) = "Less"

-----------------------------------------------------------------------------
(* The iterator: exhaustion and the window                                  *)

\* A forward step yields nothing, next being
\* self.holiday.after(&self.current.succ())
NothingYielded(next, l) == next = Panic \/ ~DateLe(next, l)

\* A forward step taken with cursor c and bound l yields nothing
ForwardYieldsNothing(c, l) ==
    NothingYielded(HolidayDate_after(holiday, succ(c)), l)

\* C15: a forward step that yields nothing leaves current, first and last
\* unchanged, and after it a forward step still yields nothing when a backward
\* step was taken in between.
C15_ForwardExhaustionPermanent ==
    [][ /\ (call'.fn = "next" /\ call'.ret = None)
           => UNCHANGED <<current, first, last>>
        /\ ( /\ call.fn = "next" /\ call.ret = None
             /\ call'.fn = "next_back" /\ ~panicked' )
           => ForwardYieldsNothing(current', last')
      ]_vars

\* C17: the bounds of an iterator satisfy first <= last in every state, and
\* at(d) never narrows the window and leaves first <= d <= last.
C17_WindowOrdered ==
    /\ panicked \/ DateLe(first, last)
    /\ [][ /\ panicked' \/ DateLe(first', last')
           /\ (call'.fn = "at" /\ ~panicked')
                  => /\ DateLe(first', first)
                     /\ DateLe(last, last')
                     /\ DateLe(first', call'.date)
                     /\ DateLe(call'.date, last')
         ]_vars

\* C17 witness: at(d) has acted on a window that ending_at had narrowed: d is
\* the bound last, below last_date(), and first lies before it.
C17_Witness ==
    /\ call.fn = "at"
    /\ ~panicked
    /\ last = call.date
    /\ DateLt(first, last)
    /\ DateLt(last, last_date(holiday))

====
